---- MODULE Spec2Model ----
(***************************************************************************)
(* Model of the directional-formatting-character balancer and isolator of  *)
(* el_internationalisation (bidi_isolation.py) and of strip_bidi (bidi.py).*)
(*                                                                         *)
(* A Python str is a sequence of code points (naturals).  One behaviour of *)
(* the model is one call bidi_isolate(text, direction), which calls        *)
(* balance_dir_format_chars(text); the scan loop is taken one iteration    *)
(* per step.                                                               *)
(***************************************************************************)
EXTENDS Integers, Sequences, FiniteSets

\* ---------------------------------------------------------------- bounds
\* longest input string that is enumerated
MaxLen == 3
\* longest input over the reduced alphabet TrackAlphabet
MaxTrackLen == 4
\* longest input of a call made with the fribidi argument given
MaxFribidiLen == 2
\* longest input of each of the two concurrent calls
MaxConcLen == 2
\* longest input of bidi_envelope
MaxEnvLen == 2

\* ------------------------------------------- dir_formatting (lines 15-25)
LTR_ISOLATE == 8294
RTL_ISOLATE == 8295
FIRST_STRONG_ISOLATE == 8296
POP_DIRECTIONAL_ISOLATE == 8297
LTR_EMBEDDING == 8234
RTL_EMBEDDING == 8235
LTR_OVERRIDE == 8237
RTL_OVERRIDE == 8238
POP_DIRECTIONAL_FORMATTING == 8236

\* the "," given to str.join when the pattern is built (line 45)
COMMA == 44

formatting_chars ==
    << LTR_ISOLATE, RTL_ISOLATE,
       FIRST_STRONG_ISOLATE, POP_DIRECTIONAL_ISOLATE,
       LTR_EMBEDDING, RTL_EMBEDDING,
       LTR_OVERRIDE, RTL_OVERRIDE,
       POP_DIRECTIONAL_FORMATTING >>

start_isolate_embedding ==
    << LTR_ISOLATE, RTL_ISOLATE, FIRST_STRONG_ISOLATE >>

other_start ==
    << LTR_EMBEDDING, RTL_EMBEDDING, LTR_OVERRIDE, RTL_OVERRIDE >>

\* Python's `x in list`
In(x, list) == \E k \in DOMAIN list : list[k] = x

\* Python's sep.join(list) for a list of one-character strings
RECURSIVE Join(_, _)
Join(list, sep) ==
    IF Len(list) = 0 THEN << >>
    ELSE IF Len(list) = 1 THEN << list[1] >>
    ELSE << list[1], sep >> \o Join(Tail(list), sep)

\* rf'[{",".join(formatting_chars)}]' : "[" + joined + "]"  (91 = "[", 93 = "]")
formatting_chars_pattern == << 91 >> \o Join(formatting_chars, COMMA) \o << 93 >>

\* The characters a bracket expression matches.  The pattern holds no "-",
\* "^" or "\", so every character between the brackets stands for itself.
CharClass(pattern) == { pattern[k] : k \in 2 .. (Len(pattern) - 1) }

\* variant: the pattern also matches the empty string
has_any_dir_format_chars_or_empty(text) ==
    \/ Len(text) = 0
    \/ \E k \in DOMAIN text : text[k] \in CharClass(formatting_chars_pattern)

\* bool(regex.search(formatting_chars_pattern, text))
has_any_dir_format_chars(text) ==
    \E k \in DOMAIN text : text[k] \in CharClass(formatting_chars_pattern)

\* ------------------------------------------------ bidi.py strip_bidi
\* variant: the first range stops at U+202C and leaves the overrides out
StripClass_no_overrides(c) ==
    (8234 <= c /\ c <= 8236) \/ (8294 <= c /\ c <= 8297)

\* regex.sub('[\u202a-\u202e\u2066-\u2069]', '', text) (line 100)
StripClass(c) == (8234 <= c /\ c <= 8238) \/ (8294 <= c /\ c <= 8297)
strip_bidi(text) == SelectSeq(text, LAMBDA c : ~StripClass(c))

\* ------------------------------------ balance_dir_format_chars, the scan
\* POP_DIRECTIONAL_FORMATTING * n  (the empty string when n <= 0)
RECURSIVE Repeat(_, _)
Repeat(c, n) == IF n <= 0 THEN << >> ELSE << c >> \o Repeat(c, n - 1)

\* A local that a call has not assigned yet, and one that it has.
Unbound == [bound |-> FALSE, val |-> << >>]
Bound(v) == [bound |-> TRUE, val |-> v]

\* locals of the call before the loop (lines 71-73); suffix is not assigned
ScanInit ==
    [result |-> << >>, formattingDepth |-> 0, isolateDepth |-> 0,
     suffix |-> Unbound]

\* variant: the opener is counted but not appended
case_other_start_drop(st, char) == [st EXCEPT !.formattingDepth = @ + 1]

\* case char if char in other_start (lines 77-79)
case_other_start(st, char) ==
    [st EXCEPT !.formattingDepth = @ + 1, !.result = @ \o << char >>]

\* variant: the test after the decrement is off by one (>= -1)
case_pop_formatting_off_by_one(st, char) ==
    LET d == st.formattingDepth - 1
    IN  [st EXCEPT !.formattingDepth = d,
                   !.result = IF d >= -1 THEN @ \o << char >> ELSE @]

\* case POP_DIRECTIONAL_FORMATTING (lines 80-84)
case_pop_formatting(st, char) ==
    LET d == st.formattingDepth - 1
    IN  [st EXCEPT !.formattingDepth = d,
                   !.result = IF d >= 0 THEN @ \o << char >> ELSE @]

\* variant: the isolate-start is appended but not counted
case_start_isolate_uncounted(st, char) == [st EXCEPT !.result = @ \o << char >>]

\* case char if char in start_isolate_embedding (lines 85-87)
case_start_isolate(st, char) ==
    [st EXCEPT !.isolateDepth = @ + 1, !.result = @ \o << char >>]

\* variant: the test after the decrement is strict (> 0)
case_pop_isolate_strict(st, char) ==
    LET d == st.isolateDepth - 1
    IN  [st EXCEPT !.isolateDepth = d,
                   !.result = IF d > 0 THEN @ \o << char >> ELSE @]

\* variant: the test after the decrement is off by one (>= -1)
case_pop_isolate_off_by_one(st, char) ==
    LET d == st.isolateDepth - 1
    IN  [st EXCEPT !.isolateDepth = d,
                   !.result = IF d >= -1 THEN @ \o << char >> ELSE @]

\* variant: a PDI also closes a formatting scope (one counter for both)
case_pop_isolate_cross(st, char) ==
    LET d == st.isolateDepth - 1
    IN  [st EXCEPT !.isolateDepth = d,
                   !.formattingDepth = @ - 1,
                   !.result = IF d >= 0 THEN @ \o << char >> ELSE @]

\* case POP_DIRECTIONAL_ISOLATE (lines 88-92)
case_pop_isolate(st, char) ==
    LET d == st.isolateDepth - 1
    IN  [st EXCEPT !.isolateDepth = d,
                   !.result = IF d >= 0 THEN @ \o << char >> ELSE @]

\* variant: the default case does not append the character
case_default_drop(st, char) == st

\* variant: the default case appends the character twice
case_default_twice(st, char) == [st EXCEPT !.result = @ \o << char, char >>]

\* case _ (lines 93-94)
case_default(st, char) == [st EXCEPT !.result = @ \o << char >>]

\* variant: the isolate closers are put before the formatting closers
closing_suffix_isolates_first(formattingDepth, isolateDepth) ==
    (IF isolateDepth > 0
        THEN Repeat(POP_DIRECTIONAL_ISOLATE, isolateDepth) ELSE << >>)
    \o
    (IF formattingDepth > 0
        THEN Repeat(POP_DIRECTIONAL_FORMATTING, formattingDepth) ELSE << >>)

\* variant: one closer for each open track, whatever its depth
closing_suffix_single(formattingDepth, isolateDepth) ==
    (IF formattingDepth > 0 THEN << POP_DIRECTIONAL_FORMATTING >> ELSE << >>)
    \o
    (IF isolateDepth > 0 THEN << POP_DIRECTIONAL_ISOLATE >> ELSE << >>)

\* the suffix computed at the end of every iteration (lines 96-100)
closing_suffix(formattingDepth, isolateDepth) ==
    (IF formattingDepth > 0
        THEN Repeat(POP_DIRECTIONAL_FORMATTING, formattingDepth) ELSE << >>)
    \o
    (IF isolateDepth > 0
        THEN Repeat(POP_DIRECTIONAL_ISOLATE, isolateDepth) ELSE << >>)

\* the match statement, in the order of its cases (lines 76-94)
match_char(st, char) ==
    IF In(char, other_start) THEN case_other_start(st, char)
    ELSE IF char = POP_DIRECTIONAL_FORMATTING THEN case_pop_formatting(st, char)
    ELSE IF In(char, start_isolate_embedding) THEN case_start_isolate(st, char)
    ELSE IF char = POP_DIRECTIONAL_ISOLATE THEN case_pop_isolate(st, char)
    ELSE case_default(st, char)

\* variant: the suffix of every iteration is appended to result in the loop
scan_step_append_in_loop(st, char) ==
    LET m == match_char(st, char)
        s == closing_suffix(m.formattingDepth, m.isolateDepth)
    IN  [m EXCEPT !.result = @ \o s, !.suffix = Bound(s)]

\* one iteration of the for loop (lines 75-100)
scan_step(st, char) ==
    LET m == match_char(st, char)
    IN  [m EXCEPT !.suffix =
            Bound(closing_suffix(m.formattingDepth, m.isolateDepth))]

\* the for loop over text (line 74), from the locals st
RECURSIVE scan_loop(_, _)
scan_loop(st, text) ==
    IF Len(text) = 0 THEN st
    ELSE scan_loop(scan_step(st, Head(text)), Tail(text))

\* return result + suffix (line 101): reading suffix when no iteration has
\* assigned it raises UnboundLocalError
scan_return(st) ==
    IF st.suffix.bound
        THEN [raised |-> FALSE, value |-> st.result \o st.suffix.val]
        ELSE [raised |-> TRUE, value |-> << >>]

\* lines 71-101: the body of balance_dir_format_chars below the early return
scan_body(text) == scan_return(scan_loop(ScanInit, text))

\* balance_dir_format_chars (lines 68-101)
balance_call(text) ==
    IF ~has_any_dir_format_chars(text)
        THEN [raised |-> FALSE, value |-> text]
        ELSE scan_body(text)

\* the string balance_dir_format_chars(text) returns
balance_dir_format_chars(text) == balance_call(text).value

\* ------------------------------------------------------- bidi_isolate
\* variant: direction is compared case-insensitively, as bidi_envelope does
start_isolate_of_lowered(d) ==
    IF d \in {"rtl", "RTL"} THEN RTL_ISOLATE
    ELSE IF d \in {"ltr", "LTR"} THEN LTR_ISOLATE
    ELSE FIRST_STRONG_ISOLATE

\* variant: the cases "rtl" and "ltr" are exchanged
start_isolate_of_swapped(d) ==
    IF d = "rtl" THEN LTR_ISOLATE
    ELSE IF d = "ltr" THEN RTL_ISOLATE
    ELSE FIRST_STRONG_ISOLATE

\* match direction (lines 121-127)
start_isolate_of(d) ==
    IF d = "rtl" THEN RTL_ISOLATE
    ELSE IF d = "ltr" THEN LTR_ISOLATE
    ELSE FIRST_STRONG_ISOLATE

\* f'{start_isolate}{balance_dir_format_chars(text)}{PDI}' (line 128)
isolate_string(start, bal) ==
    << start >> \o bal \o << POP_DIRECTIONAL_ISOLATE >>

\* whether the returned string has gone through rtl_hack (lines 129-131):
\* the two lines that would call it are comments
reordered(flag) == FALSE

\* the string bidi_isolate(text, direction) returns
bidi_isolate(text, d) ==
    isolate_string(start_isolate_of(d), balance_dir_format_chars(text))

\* ------------------------------------------------ bidi.py bidi_envelope
\* The str arguments dir and mode are sequences of code points, so that
\* str.lower() is modelled by what it does.
S_isolate == << 105, 115, 111, 108, 97, 116, 101 >>
S_embed == << 101, 109, 98, 101, 100 >>
S_override == << 111, 118, 101, 114, 114, 105, 100, 101 >>
S_rtl == << 114, 116, 108 >>
S_ltr == << 108, 116, 114 >>
S_auto == << 97, 117, 116, 111 >>

\* variant: dir and mode are compared as passed
str_lower_identity(str) == str

\* str.lower() on ASCII text: "A".."Z" (65..90) become "a".."z"
str_lower(str) ==
    [k \in DOMAIN str |->
        IF 65 <= str[k] /\ str[k] <= 90 THEN str[k] + 32 ELSE str[k]]

\* variant: "auto" is not replaced by "rtl" in the embed and override modes
envelope_dir_keep(dir, mode) == dir

\* the value of dir after `if dir == "auto": dir = "rtl"` (lines 66-67, 73-74)
envelope_dir(dir, mode) ==
    IF mode \in {S_embed, S_override} /\ dir = S_auto THEN S_rtl ELSE dir

\* lines 58-79, on the lower-cased mode and dir
envelope_wrap(txt, dir, mode) ==
    LET d == envelope_dir(dir, mode)
    IN  IF mode = S_isolate
            THEN IF d = S_rtl THEN << 8295 >> \o txt \o << 8297 >>
                 ELSE IF d = S_ltr THEN << 8294 >> \o txt \o << 8297 >>
                 ELSE IF d = S_auto THEN << 8296 >> \o txt \o << 8297 >>
                 ELSE txt
        ELSE IF mode = S_embed
            THEN IF d = S_rtl THEN << 8235 >> \o txt \o << 8236 >>
                 ELSE IF d = S_ltr THEN << 8234 >> \o txt \o << 8236 >>
                 ELSE txt
        ELSE IF mode = S_override
            THEN IF d = S_rtl THEN << 8238 >> \o txt \o << 8236 >>
                 ELSE IF d = S_ltr THEN << 8237 >> \o txt \o << 8236 >>
                 ELSE txt
        ELSE txt

\* the string bidi_envelope(text, dir, mode) returns (lines 45-79)
bidi_envelope(txt, dir, mode) ==
    envelope_wrap(txt, str_lower(dir), str_lower(mode))

\* ----------------------------------------------------------- inputs
\* the nine directional formatting characters, "," and "a"
Alphabet == (8234 .. 8238) \cup (8294 .. 8297) \cup {44, 97}
Inputs == UNION { [1 .. n -> Alphabet] : n \in 0 .. MaxLen }
\* "LTR" stands for the values that are none of the three documented ones
Directions == {"ltr", "rtl", "auto", "LTR"}
\* one character of each kind the match statement tells apart:
\* LRE, PDF, LRI, PDI and "a"
TrackAlphabet == {8234, 8236, 8294, 8297, 97}
TrackInputs == UNION { [1 .. n -> TrackAlphabet] : n \in 0 .. MaxTrackLen }
FribidiInputs == UNION { [1 .. n -> Alphabet] : n \in 0 .. MaxFribidiLen }
ConcInputs == UNION { [1 .. n -> TrackAlphabet] : n \in 0 .. MaxConcLen }
EnvInputs == UNION { [1 .. n -> Alphabet] : n \in 0 .. MaxEnvLen }
\* "rtl", "ltr", "auto", "RTL", "Auto" and the unrecognised "x"
EnvDirs == { S_rtl, S_ltr, S_auto, << 82, 84, 76 >>, << 65, 117, 116, 111 >>,
             << 120 >> }
\* "isolate", "embed", "override", "EMBED", "Isolate" and the unrecognised "x"
EnvModes == { S_isolate, S_embed, S_override, << 69, 77, 66, 69, 68 >>,
              << 73, 115, 111, 108, 97, 116, 101 >>, << 120 >> }

\* ------------------------------------------------------------ state
VARIABLES
    pc,              \* position of the call
    text,            \* argument of bidi_isolate and balance_dir_format_chars
    direction,       \* argument of bidi_isolate
    start_isolate,   \* local of bidi_isolate: "" until assigned, then 1 char
    i,               \* loop index of balance_dir_format_chars
    result,          \* locals of balance_dir_format_chars
    formattingDepth,
    isolateDepth,
    suffix,
    balanced,        \* the value balance_dir_format_chars returned
    out,             \* the value bidi_isolate returned
    fribidi,         \* argument of bidi_isolate (default False)
    visual,          \* whether out went through rtl_hack (visual reordering)
    frames,          \* the calls in flight when several run concurrently
    env              \* a call of bidi_envelope

vars == << pc, text, direction, start_isolate, i, result, formattingDepth,
           isolateDepth, suffix, balanced, out, fribidi, visual, frames, env >>

\* what a call of bidi_isolate on its own does not touch
others == << frames, env >>

\* no concurrent calls and no bidi_envelope call
NoFrames == << >>
NoEnv == [pc |-> "none"]

Locals == [result |-> result, formattingDepth |-> formattingDepth,
           isolateDepth |-> isolateDepth, suffix |-> suffix]

\* a call bidi_isolate(text, direction, fribidi) is entered
InitCall(texts, flags) ==
    /\ pc = "bidi_isolate"
    /\ text \in texts
    /\ direction \in Directions
    /\ fribidi \in flags
    /\ visual = FALSE
    /\ frames = NoFrames
    /\ env = NoEnv
    /\ start_isolate = << >>
    /\ i = 0
    /\ result = << >>
    /\ formattingDepth = 0
    /\ isolateDepth = 0
    /\ suffix = Unbound
    /\ balanced = << >>
    /\ out = << >>

\* bidi_isolate(text, direction): fribidi has its default, False
Init == InitCall(Inputs, {FALSE})

\* bidi_isolate lines 121-127, then the call of line 128
MatchDirection ==
    /\ pc = "bidi_isolate"
    /\ start_isolate' = << start_isolate_of(direction) >>
    /\ pc' = "balance"
    /\ UNCHANGED << text, direction, i, result, formattingDepth,
                    isolateDepth, suffix, balanced, out, fribidi, visual >>
    /\ UNCHANGED others

\* lines 69-70: the early return
FastPath ==
    /\ pc = "balance"
    /\ ~has_any_dir_format_chars(text)
    /\ balanced' = text
    /\ pc' = "balanced"
    /\ UNCHANGED << text, direction, start_isolate, i, result,
                    formattingDepth, isolateDepth, suffix, out, fribidi,
                    visual >>
    /\ UNCHANGED others

\* lines 71-73
EnterScan ==
    /\ pc = "balance"
    /\ has_any_dir_format_chars(text)
    /\ result' = ScanInit.result
    /\ formattingDepth' = ScanInit.formattingDepth
    /\ isolateDepth' = ScanInit.isolateDepth
    /\ suffix' = ScanInit.suffix
    /\ i' = 0
    /\ pc' = "scan"
    /\ UNCHANGED << text, direction, start_isolate, balanced, out, fribidi,
                    visual >>
    /\ UNCHANGED others

\* lines 74-100: one iteration, on text[i]
ScanStep ==
    /\ pc = "scan"
    /\ i < Len(text)
    /\ LET st == scan_step(Locals, text[i + 1])
       IN  /\ result' = st.result
           /\ formattingDepth' = st.formattingDepth
           /\ isolateDepth' = st.isolateDepth
           /\ suffix' = st.suffix
    /\ i' = i + 1
    /\ UNCHANGED << pc, text, direction, start_isolate, balanced, out,
                    fribidi, visual >>
    /\ UNCHANGED others

\* line 101
ScanReturn ==
    /\ pc = "scan"
    /\ i = Len(text)
    /\ LET r == scan_return(Locals)
       IN  /\ balanced' = r.value
           /\ pc' = IF r.raised THEN "raised" ELSE "balanced"
    /\ UNCHANGED << text, direction, start_isolate, i, result,
                    formattingDepth, isolateDepth, suffix, out, fribidi,
                    visual >>
    /\ UNCHANGED others

\* lines 128-131: lines 129-130, the call of rtl_hack when fribidi is set,
\* are commented out, so the string is returned in logical order
IsolateReturn ==
    /\ pc = "balanced"
    /\ out' = isolate_string(start_isolate[1], balanced)
    /\ visual' = reordered(fribidi)
    /\ pc' = "done"
    /\ UNCHANGED << text, direction, start_isolate, i, result,
                    formattingDepth, isolateDepth, suffix, balanced, fribidi >>
    /\ UNCHANGED others

Next ==
    \/ MatchDirection
    \/ FastPath
    \/ EnterScan
    \/ ScanStep
    \/ ScanReturn
    \/ IsolateReturn

Spec == Init /\ [][Next]_vars

\* calls on longer inputs over the reduced alphabet
InitTracks == InitCall(TrackInputs, {FALSE})
SpecTracks == InitTracks /\ [][Next]_vars

\* calls with the fribidi argument given
InitFribidi == InitCall(FribidiInputs, BOOLEAN)
SpecFribidi == InitFribidi /\ [][Next]_vars

\* ------------------------------------------- a call of bidi_envelope
\* the variables of a bidi_isolate call
callvars == << pc, text, direction, start_isolate, i, result, formattingDepth,
               isolateDepth, suffix, balanced, out, fribidi, visual >>

\* no call of bidi_isolate is in progress
NoCall ==
    /\ pc = "none"
    /\ text = << >>
    /\ direction = "auto"
    /\ fribidi = FALSE
    /\ visual = FALSE
    /\ start_isolate = << >>
    /\ i = 0
    /\ result = << >>
    /\ formattingDepth = 0
    /\ isolateDepth = 0
    /\ suffix = Unbound
    /\ balanced = << >>
    /\ out = << >>

\* bidi_envelope(text, dir, mode) is entered; args keeps the values passed,
\* text, dir and mode are the local names the function rebinds
InitEnvelope ==
    /\ NoCall
    /\ frames = NoFrames
    /\ env \in { [pc |-> "bidi_envelope",
                  args |-> [text |-> t, dir |-> d, mode |-> m],
                  text |-> t, dir |-> d, mode |-> m, ret |-> << >>] :
                 t \in EnvInputs, d \in EnvDirs, m \in EnvModes }

\* lines 56-57
EnvelopeLower ==
    /\ env.pc = "bidi_envelope"
    /\ env' = [env EXCEPT !.mode = str_lower(@), !.dir = str_lower(@),
                          !.pc = "wrap"]
    /\ UNCHANGED << callvars, frames >>

\* lines 58-79
EnvelopeWrap ==
    /\ env.pc = "wrap"
    /\ LET t == envelope_wrap(env.text, env.dir, env.mode)
       IN  env' = [env EXCEPT !.text = t,
                              !.dir = envelope_dir(env.dir, env.mode),
                              !.ret = t,
                              !.pc = "done"]
    /\ UNCHANGED << callvars, frames >>

NextEnvelope ==
    \/ EnvelopeLower
    \/ EnvelopeWrap

SpecEnvelope == InitEnvelope /\ [][NextEnvelope]_vars

\* --------------------------------- concurrent calls of bidi_isolate
\* Each call in flight has a frame holding its arguments, its position and
\* its locals.  The module-level names the calls read (dir_formatting, the
\* lists, the pattern) are assigned at import only: they are the constant
\* definitions above.
Calls == {1, 2}
\* the direction each of the two calls is made with
ConcDirection == << "rtl", "auto" >>

\* the frame of bidi_isolate(t, d) on entry
NewFrame(t, d) ==
    [pc |-> "bidi_isolate", text |-> t, direction |-> d,
     start_isolate |-> << >>, i |-> 0,
     result |-> << >>, formattingDepth |-> 0, isolateDepth |-> 0,
     suffix |-> Unbound, balanced |-> << >>, out |-> << >>]

\* the locals of balance_dir_format_chars in frame f
FrameLocals(f) ==
    [result |-> f.result, formattingDepth |-> f.formattingDepth,
     isolateDepth |-> f.isolateDepth, suffix |-> f.suffix]

\* frame f with the locals st
WithLocals(f, st) ==
    [f EXCEPT !.result = st.result,
              !.formattingDepth = st.formattingDepth,
              !.isolateDepth = st.isolateDepth,
              !.suffix = st.suffix]

\* variant: formattingDepth and isolateDepth are module-level names, so an
\* assignment by one call is seen by every call
write_frame_global_depths(fs, c, new) ==
    [k \in DOMAIN fs |->
        IF k = c THEN new
        ELSE [fs[k] EXCEPT !.formattingDepth = new.formattingDepth,
                           !.isolateDepth = new.isolateDepth]]

\* a step of call c binds names in the frame of c only: every name the two
\* functions assign is a local (lines 71-100, 121-128)
write_frame(fs, c, new) == [fs EXCEPT ![c] = new]

\* bidi_isolate lines 121-127, then the call of line 128
ConcMatchDirection(c) ==
    /\ frames[c].pc = "bidi_isolate"
    /\ frames' = write_frame(frames, c,
           [frames[c] EXCEPT
               !.start_isolate = << start_isolate_of(frames[c].direction) >>,
               !.pc = "balance"])
    /\ UNCHANGED << callvars, env >>

\* lines 69-70
ConcFastPath(c) ==
    /\ frames[c].pc = "balance"
    /\ ~has_any_dir_format_chars(frames[c].text)
    /\ frames' = write_frame(frames, c,
           [frames[c] EXCEPT !.balanced = frames[c].text, !.pc = "balanced"])
    /\ UNCHANGED << callvars, env >>

\* lines 71-73
ConcEnterScan(c) ==
    /\ frames[c].pc = "balance"
    /\ has_any_dir_format_chars(frames[c].text)
    /\ frames' = write_frame(frames, c,
           [WithLocals(frames[c], ScanInit) EXCEPT !.i = 0, !.pc = "scan"])
    /\ UNCHANGED << callvars, env >>

\* lines 74-100: one iteration
ConcScanStep(c) ==
    /\ frames[c].pc = "scan"
    /\ frames[c].i < Len(frames[c].text)
    /\ LET f == frames[c]
           st == scan_step(FrameLocals(f), f.text[f.i + 1])
       IN  frames' = write_frame(frames, c,
               [WithLocals(f, st) EXCEPT !.i = f.i + 1])
    /\ UNCHANGED << callvars, env >>

\* line 101
ConcScanReturn(c) ==
    /\ frames[c].pc = "scan"
    /\ frames[c].i = Len(frames[c].text)
    /\ LET r == scan_return(FrameLocals(frames[c]))
       IN  frames' = write_frame(frames, c,
               [frames[c] EXCEPT
                   !.balanced = r.value,
                   !.pc = IF r.raised THEN "raised" ELSE "balanced"])
    /\ UNCHANGED << callvars, env >>

\* lines 128-131
ConcIsolateReturn(c) ==
    /\ frames[c].pc = "balanced"
    /\ frames' = write_frame(frames, c,
           [frames[c] EXCEPT
               !.out = isolate_string(frames[c].start_isolate[1],
                                      frames[c].balanced),
               !.pc = "done"])
    /\ UNCHANGED << callvars, env >>

\* both calls are entered before either takes a step
InitConc ==
    /\ NoCall
    /\ env = NoEnv
    /\ \E t1 \in ConcInputs, t2 \in ConcInputs :
           frames = << NewFrame(t1, ConcDirection[1]),
                       NewFrame(t2, ConcDirection[2]) >>

\* the scheduler picks the call that takes the next step
NextConc ==
    \E c \in Calls :
        \/ ConcMatchDirection(c)
        \/ ConcFastPath(c)
        \/ ConcEnterScan(c)
        \/ ConcScanStep(c)
        \/ ConcScanReturn(c)
        \/ ConcIsolateReturn(c)

SpecConc == InitConc /\ [][NextConc]_vars

\* the step-wise call computes what the operators compute
StepwiseAgrees ==
    /\ pc \in {"balanced", "done"} => balanced = balance_dir_format_chars(text)
    /\ pc = "done" => out = bidi_isolate(text, direction)
    /\ pc = "scan" => Locals = scan_loop(ScanInit, SubSeq(text, 1, i))
    /\ env.pc = "done" =>
           env.ret = bidi_envelope(env.args.text, env.args.dir, env.args.mode)

\* ------------------------------------------------------------ claims
\* balance_dir_format_chars has returned
Returned == pc \in {"balanced", "done"}

\* the nine directional formatting characters, U+202A-U+202E and U+2066-U+2069
DirFormat == {8234, 8235, 8236, 8237, 8238, 8294, 8295, 8296, 8297}
FormattingStart == {8234, 8235, 8237, 8238}
IsolateStart == {8294, 8295, 8296}
PDF == 8236
PDI == 8297

HasDirFormat(s) == \E k \in DOMAIN s : s[k] \in DirFormat

\* number of positions of s that hold a character of set S
Count(s, S) == Cardinality({k \in DOMAIN s : s[k] \in S})

\* The two floor-at-zero counters of the specification's algorithm after a
\* left-to-right scan of s: formatting-start +1, PDF -1, isolate-start +1,
\* PDI -1, neither counter going below 0.
RECURSIVE FloorDepths(_, _, _)
FloorDepths(s, f, d) ==
    IF Len(s) = 0 THEN << f, d >>
    ELSE LET c == Head(s)
         IN  IF c \in FormattingStart THEN FloorDepths(Tail(s), f + 1, d)
             ELSE IF c = PDF
                 THEN FloorDepths(Tail(s), IF f > 0 THEN f - 1 ELSE 0, d)
             ELSE IF c \in IsolateStart THEN FloorDepths(Tail(s), f, d + 1)
             ELSE IF c = PDI
                 THEN FloorDepths(Tail(s), f, IF d > 0 THEN d - 1 ELSE 0)
             ELSE FloorDepths(Tail(s), f, d)

\* y is x with zero or more PDF/PDI characters deleted and nothing else changed
RECURSIVE IsTerminatorDeletion(_, _)
IsTerminatorDeletion(x, y) ==
    IF Len(x) = 0 THEN Len(y) = 0
    ELSE \/ /\ Len(y) > 0
            /\ Head(x) = Head(y)
            /\ IsTerminatorDeletion(Tail(x), Tail(y))
         \/ /\ Head(x) \in {PDF, PDI}
            /\ IsTerminatorDeletion(Tail(x), y)

\* C1: rescanning the returned string with the floor-at-zero counters ends
\* with formatting depth 0 and isolate depth 0.
C1_BalanceInvariant ==
    Returned => FloorDepths(balanced, 0, 0) = << 0, 0 >>

\* C2: balancing the returned string again gives the returned string.
C2_Idempotence ==
    Returned => balance_dir_format_chars(balanced) = balanced

\* C3: the string bidi_isolate returns is balanced: balancing it is a no-op.
C3_IsolateOutputBalanced ==
    pc = "done" => balance_dir_format_chars(out) = out

\* C4: bidi_isolate(x, d) is start + balance_dir_format_chars(x) + PDI with
\* start LRI for exactly "ltr", RLI for exactly "rtl", FSI for anything else.
C4_IsolateShape ==
    pc = "done" =>
        out = << (IF direction = "ltr" THEN 8294
                  ELSE IF direction = "rtl" THEN 8295 ELSE 8296) >>
              \o balance_dir_format_chars(text) \o << 8297 >>

\* an unrecognised direction, and text the balancer had to close
C4_Witness ==
    /\ pc = "done"
    /\ direction = "LTR"
    /\ text = << 8234, 97 >>
    /\ out = << 8296, 8234, 97, 8236, 8297 >>

\* C5: in every prefix of the returned string the PDFs are at most the
\* formatting-starts and the PDIs are at most the isolate-starts.
C5_NoUnopenedCloser ==
    Returned =>
        \A n \in 0 .. Len(balanced) :
            LET p == SubSeq(balanced, 1, n)
            IN  /\ Count(p, {PDF}) <= Count(p, FormattingStart)
                /\ Count(p, {PDI}) <= Count(p, IsolateStart)

\* the PDF that closes the LRE is kept, the orphan PDF after it is dropped
C5_Witness ==
    /\ Returned
    /\ text = << 8234, 8236, 8236 >>
    /\ balanced = << 8234, 8236 >>

\* C6: removing the directional formatting characters from the returned
\* string gives what removing them from the input gives.
C6_PassThrough ==
    Returned => strip_bidi(balanced) = strip_bidi(text)

\* ordinary characters around a dropped PDI and a closed LRE
C6_Witness ==
    /\ Returned
    /\ text = << 8297, 97, 8234 >>
    /\ balanced = << 97, 8234, 8236 >>
    /\ strip_bidi(balanced) = << 97 >>

\* C7: the returned string is y + s with y the input less some PDF/PDI
\* characters and s made of PDF and PDI characters only.
C7_MinimalChange ==
    Returned =>
        \E k \in 0 .. Len(balanced) :
            LET y == SubSeq(balanced, 1, Len(balanced) - k)
                s == SubSeq(balanced, Len(balanced) - k + 1, Len(balanced))
            IN  /\ \A j \in DOMAIN s : s[j] \in {PDF, PDI}
                /\ IsTerminatorDeletion(text, y)

\* an orphan PDI deleted and a PDF appended at the end
C7_Witness ==
    /\ Returned
    /\ text = << 8234, 8297, 44 >>
    /\ balanced = << 8234, 44, 8236 >>

\* C8: has_any_dir_format_chars(text) is true exactly when text holds one of
\* the nine directional formatting characters.
C8_PresenceDetector ==
    has_any_dir_format_chars(text) <=> HasDirFormat(text)

\* C9: the body below the early return, run on the same input, returns the
\* string the call returned.
C9_FastPathEquivalence ==
    Returned => scan_body(text) = [raised |-> FALSE, value |-> balanced]

\* C10: input without directional formatting characters is returned as is.
C10_NoOpOnClean ==
    (Returned /\ ~HasDirFormat(text)) => balanced = text

\* clean text that the scan loop went through
C10_Witness ==
    /\ Returned
    /\ text = << 97, 44 >>
    /\ suffix.bound
    /\ balanced = << 97, 44 >>

\* ----------------------------------------------- claims C11 to C20
\* s holds a PDF met at formatting depth 0 or a PDI met at isolate depth 0,
\* the scan having started at depths f and d
RECURSIVE HasOrphan(_, _, _)
HasOrphan(s, f, d) ==
    IF Len(s) = 0 THEN FALSE
    ELSE LET c == Head(s)
         IN  IF c \in FormattingStart THEN HasOrphan(Tail(s), f + 1, d)
             ELSE IF c = PDF THEN f = 0 \/ HasOrphan(Tail(s), f - 1, d)
             ELSE IF c \in IsolateStart THEN HasOrphan(Tail(s), f, d + 1)
             ELSE IF c = PDI THEN d = 0 \/ HasOrphan(Tail(s), f, d - 1)
             ELSE HasOrphan(Tail(s), f, d)

\* no orphan terminator and both depths 0 at the end
IsBalanced(s) == ~HasOrphan(s, 0, 0) /\ FloorDepths(s, 0, 0) = << 0, 0 >>

\* The algorithm of the specification (4.3): the scan with the two
\* floor-at-zero counters, then the PDFs and the PDIs that are missing.
RECURSIVE RefScan(_, _, _, _)
RefScan(s, f, d, acc) ==
    IF Len(s) = 0 THEN acc \o Repeat(PDF, f) \o Repeat(PDI, d)
    ELSE LET c == Head(s)
         IN  IF c \in FormattingStart
                 THEN RefScan(Tail(s), f + 1, d, acc \o << c >>)
             ELSE IF c = PDF
                 THEN IF f > 0 THEN RefScan(Tail(s), f - 1, d, acc \o << c >>)
                      ELSE RefScan(Tail(s), 0, d, acc)
             ELSE IF c \in IsolateStart
                 THEN RefScan(Tail(s), f, d + 1, acc \o << c >>)
             ELSE IF c = PDI
                 THEN IF d > 0 THEN RefScan(Tail(s), f, d - 1, acc \o << c >>)
                      ELSE RefScan(Tail(s), f, 0, acc)
             ELSE RefScan(Tail(s), f, d, acc \o << c >>)

\* C11: the call never raises: suffix is assigned whenever the return
\* statement reads it, and every call that has not returned can take a step.
C11_Totality ==
    /\ pc # "raised"
    /\ (pc = "scan" /\ i = Len(text)) => suffix.bound
    /\ pc # "done" => ENABLED Next

\* malformed nesting on both tracks, scanned and returned
C11_Witness ==
    /\ pc = "done"
    /\ direction = "rtl"
    /\ text = << 8297, 8234, 8294 >>
    /\ suffix = Bound(<< 8236 >>)
    /\ out = << 8295, 8234, 8294, 8236, 8297 >>

\* C12: an input without orphan terminators whose two depths end at 0 is
\* returned unchanged.
C12_BalancedFixedPoint ==
    (Returned /\ IsBalanced(text)) => balanced = text

\* the two tracks interleave: LRI LRE PDI PDF
C12_Witness ==
    /\ Returned
    /\ text = << 8294, 8234, 8297, 8236 >>
    /\ i = 4
    /\ balanced = text

\* text is one LRE followed by characters that are not directional formatting
LREThenOrdinary(s) ==
    /\ Len(s) >= 1
    /\ s[1] = 8234
    /\ \A k \in 2 .. Len(s) : s[k] \notin DirFormat

\* C13: for an LRE followed by ordinary characters w the call returns w
\* followed by one PDF (the LRE itself not being part of the result).
C13_UnclosedLREDropped ==
    (Returned /\ LREThenOrdinary(text)) =>
        balanced = Tail(text) \o << 8236 >>

\* C13, amended: for an LRE followed by ordinary characters w the call
\* returns the LRE, then w, then one PDF.
C13_UnclosedLREClosed ==
    (Returned /\ LREThenOrdinary(text)) =>
        balanced = << 8234 >> \o Tail(text) \o << 8236 >>

\* LRE a , gets its PDF and keeps its LRE
C13_Witness ==
    /\ Returned
    /\ text = << 8234, 97, 44 >>
    /\ balanced = << 8234, 97, 44, 8236 >>

\* C14: for an input without formatting-start and isolate-start characters
\* the call returns the input less its PDFs and PDIs, and bidi_isolate with
\* direction "auto" returns FSI + that + PDI.
C14_OrphansDropped ==
    (Returned /\ Count(text, FormattingStart \cup IsolateStart) = 0) =>
        LET kept == SelectSeq(text, LAMBDA c : c \notin {PDF, PDI})
        IN  /\ balanced = kept
            /\ (pc = "done" /\ direction = "auto") =>
                   out = << 8296 >> \o kept \o << 8297 >>

\* an orphan PDI and an orphan PDF around a letter
C14_Witness ==
    /\ pc = "done"
    /\ direction = "auto"
    /\ text = << 8297, 97, 8236 >>
    /\ balanced = << 97 >>
    /\ out = << 8296, 97, 8297 >>

\* C15: under every interleaving of the steps of two calls, each call
\* returns what the same call returns when it runs alone, and no step of one
\* call changes the frame of the other.
C15_NoInterference ==
    [][\A c \in Calls :
          /\ frames'[c].pc \in {"balanced", "done"} =>
                 frames'[c].balanced = balance_dir_format_chars(frames[c].text)
          /\ frames'[c].pc = "done" =>
                 frames'[c].out =
                     bidi_isolate(frames[c].text, frames[c].direction)
          /\ frames'[c] # frames[c] =>
                 \A o \in Calls \ {c} : frames'[o] = frames[o]]_vars

\* call 1 has returned while call 2 is in the middle of its scan, with
\* counters that differ from those call 1 ended with
C15_Witness ==
    /\ DOMAIN frames = Calls
    /\ frames[1].pc = "done"
    /\ frames[1].text = << 8234, 8294 >>
    /\ frames[1].out = << 8295, 8234, 8294, 8236, 8297, 8297 >>
    /\ frames[2].pc = "scan"
    /\ frames[2].text = << 8297, 8234 >>
    /\ frames[2].i = 1
    /\ frames[2].isolateDepth = -1

\* C16: the returned string has gone through the visual reordering exactly
\* when fribidi is True.
C16_FribidiReorders ==
    pc = "done" => (visual <=> fribidi)

\* s with "A".."Z" replaced by "a".."z"
CaseFolded(s) ==
    [k \in DOMAIN s |-> IF s[k] \in 65 .. 90 THEN s[k] + 32 ELSE s[k]]

\* C17: with dir and mode compared without regard to case, bidi_envelope
\* returns opener + text + closer: RLI/LRI/FSI .. PDI in mode isolate for
\* rtl/ltr/auto, RLE/LRE .. PDF in mode embed and RLO/LRO .. PDF in mode
\* override for rtl/ltr, auto counting as rtl in the last two modes.
C17_EnvelopeWraps ==
    env.pc = "done" =>
        LET x == env.args.text
            d == CaseFolded(env.args.dir)
            m == CaseFolded(env.args.mode)
            Is(o, c) == env.ret = << o >> \o x \o << c >>
        IN  /\ (m = S_isolate /\ d = S_rtl) => Is(8295, 8297)
            /\ (m = S_isolate /\ d = S_ltr) => Is(8294, 8297)
            /\ (m = S_isolate /\ d = S_auto) => Is(8296, 8297)
            /\ (m = S_embed /\ d \in {S_rtl, S_auto}) => Is(8235, 8236)
            /\ (m = S_embed /\ d = S_ltr) => Is(8234, 8236)
            /\ (m = S_override /\ d \in {S_rtl, S_auto}) => Is(8238, 8236)
            /\ (m = S_override /\ d = S_ltr) => Is(8237, 8236)

\* bidi_envelope("a", "Auto", "EMBED") is RLE a PDF
C17_Witness ==
    /\ env.pc = "done"
    /\ env.args = [text |-> << 97 >>, dir |-> << 65, 117, 116, 111 >>,
                   mode |-> << 69, 77, 66, 69, 68 >>]
    /\ env.ret = << 8235, 97, 8236 >>

\* C18: strip_bidi removes the nine directional formatting characters and
\* nothing else, so it is idempotent and strips the envelope and the isolate
\* that bidi_envelope and bidi_isolate put around a text.
C18_StripBidi ==
    env.pc = "done" =>
        LET x == env.args.text
        IN  /\ strip_bidi(x) = SelectSeq(x, LAMBDA c : c \notin DirFormat)
            /\ strip_bidi(strip_bidi(x)) = strip_bidi(x)
            /\ strip_bidi(env.ret) = strip_bidi(x)
            /\ \A d \in Directions :
                   strip_bidi(bidi_isolate(x, d)) = strip_bidi(x)

\* an RLO inside the text and the LRO .. PDF envelope around it are removed
C18_Witness ==
    /\ env.pc = "done"
    /\ env.args.text = << 8238, 97 >>
    /\ env.ret = << 8237, 8238, 97, 8236 >>
    /\ strip_bidi(env.ret) = << 97 >>

\* C19: the returned string is the one the specification's floor-at-zero
\* scan returns.
C19_EqualsReferenceScan ==
    Returned => balanced = RefScan(text, 0, 0, << >>)

\* C20: both nesting counters are >= 0 in every state of the call.
C20_DepthsNonNegative ==
    formattingDepth >= 0 /\ isolateDepth >= 0

\* ----------------------------------------------- claims C21 to C27
\* n copies of the character c, none when n <= 0
Run(c, n) == [k \in 1 .. n |-> c]

\* the characters of s that belong to the set S, in order
Only(s, S) == SelectSeq(s, LAMBDA c : c \in S)

\* C21: an iteration of the scan adds nothing to result but the character
\* it processes, and the one step that returns does so after the last
\* character, with result followed by as many PDFs as the final
\* formattingDepth and then as many PDIs as the final isolateDepth (none for
\* a depth that is not positive).
C21_SuffixOnce ==
    [][/\ (pc = "scan" /\ pc' = "scan") =>
              result' \in {result, result \o << text[i + 1] >>}
       /\ (pc = "scan" /\ pc' = "balanced") =>
              /\ i = Len(text)
              /\ balanced' = result \o Run(8236, formattingDepth)
                                    \o Run(8297, isolateDepth)]_vars

\* LRI LRE LRE: the suffixes of the first two iterations (PDI, then PDF PDI)
\* are not in the string returned
C21_Witness ==
    /\ Returned
    /\ text = << 8294, 8234, 8234 >>
    /\ result = text
    /\ suffix = Bound(<< 8236, 8236, 8297 >>)
    /\ balanced = << 8294, 8234, 8234, 8236, 8236, 8297 >>

\* C22: an iteration on an isolate-start or a PDI leaves formattingDepth
\* unchanged, one on a formatting-start or a PDF leaves isolateDepth
\* unchanged, one on any other character leaves both unchanged; and the
\* formatting characters of the returned string are those the call returns
\* for the formatting characters of the input alone, likewise for isolates.
C22_TracksIndependent ==
    [][/\ (pc = "scan" /\ pc' = "scan") =>
              LET c == text[i + 1]
              IN  /\ c \in IsolateStart \cup {PDI} =>
                         formattingDepth' = formattingDepth
                  /\ c \in FormattingStart \cup {PDF} =>
                         isolateDepth' = isolateDepth
                  /\ c \notin DirFormat =>
                         /\ formattingDepth' = formattingDepth
                         /\ isolateDepth' = isolateDepth
       /\ (pc # "balanced" /\ pc' = "balanced") =>
              LET F == FormattingStart \cup {PDF}
                  I == IsolateStart \cup {PDI}
              IN  /\ Only(balanced', F) =
                         balance_dir_format_chars(Only(text, F))
                  /\ Only(balanced', I) =
                         balance_dir_format_chars(Only(text, I))]_vars

\* a PDI was processed at formatting depth 1: the formatting counter is
\* still 1 and the isolate counter went to -1
C22_Witness ==
    /\ pc = "scan"
    /\ i = 2
    /\ text = << 8234, 8297, 8236 >>
    /\ formattingDepth = 1
    /\ isolateDepth = -1

\* C23: for an input without orphan terminators the call returns the input
\* followed by one PDF for each formatting scope and then one PDI for each
\* isolate scope open at its end, and bidi_isolate with direction "auto"
\* returns FSI + that + PDI.
C23_NoOrphansAppendOnly ==
    (Returned /\ ~HasOrphan(text, 0, 0)) =>
        LET open == FloorDepths(text, 0, 0)
            closed == text \o Run(8236, open[1]) \o Run(8297, open[2])
        IN  /\ balanced = closed
            /\ (pc = "done" /\ direction = "auto") =>
                   out = << 8296 >> \o closed \o << 8297 >>

\* two formatting scopes left open
C23_Witness ==
    /\ pc = "done"
    /\ direction = "auto"
    /\ text = << 8234, 97, 8238 >>
    /\ balanced = << 8234, 97, 8238, 8236, 8236 >>
    /\ out = << 8296, 8234, 97, 8238, 8236, 8236, 8297 >>

\* C24: the string obtained by balancing twice is balanced (no orphan
\* terminator, both rescanned depths 0) and balancing it a third time
\* changes nothing.
C24_ConvergesInTwo ==
    Returned =>
        LET twice == balance_dir_format_chars(balanced)
        IN  /\ IsBalanced(twice)
            /\ balance_dir_format_chars(twice) = twice

\* PDI LRI LRE: the first pass leaves the LRI open, the second closes it
C24_Witness ==
    /\ Returned
    /\ text = << 8297, 8294, 8234 >>
    /\ balanced = << 8294, 8234, 8236 >>
    /\ balance_dir_format_chars(balanced) = << 8294, 8234, 8236, 8297 >>

\* C25: whenever the input is x + y with x balanced, the call returns
\* x + balance_dir_format_chars(y).
C25_BalancedPrefix ==
    Returned =>
        \A k \in 0 .. Len(text) :
            LET x == SubSeq(text, 1, k)
                y == SubSeq(text, k + 1, Len(text))
            IN  IsBalanced(x) => balanced = x \o balance_dir_format_chars(y)

\* LRI PDI, then PDF LRE: the prefix is kept, the rest balanced on its own
C25_Witness ==
    /\ Returned
    /\ text = << 8294, 8297, 8236, 8234 >>
    /\ IsBalanced(SubSeq(text, 1, 2))
    /\ balance_dir_format_chars(SubSeq(text, 3, 4)) = << 8234 >>
    /\ balanced = << 8294, 8297, 8234 >>

\* the str a direction of bidi_isolate stands for, as code points
DirectionStr(d) ==
    IF d = "ltr" THEN S_ltr ELSE IF d = "rtl" THEN S_rtl ELSE S_auto

\* C26: for text without directional formatting characters and direction
\* "ltr", "rtl" or "auto", bidi_isolate returns what bidi_envelope returns
\* in mode "isolate".
C26_IsolateAgreesWithEnvelope ==
    (pc = "done" /\ ~HasDirFormat(text)
                 /\ direction \in {"ltr", "rtl", "auto"}) =>
        out = bidi_envelope(text, DirectionStr(direction), S_isolate)

\* clean text with a comma, which the scan loop went through
C26_Witness ==
    /\ pc = "done"
    /\ direction = "rtl"
    /\ text = << 97, 44 >>
    /\ i = 2
    /\ out = << 8295, 97, 44, 8297 >>
    /\ out = bidi_envelope(text, S_rtl, S_isolate)

\* C27: bidi_envelope returns text unchanged exactly when the lower-cased
\* mode is none of isolate, embed, override or the lower-cased dir is none
\* of ltr, rtl, auto; otherwise it returns text, unmodified, with one
\* character before it and one after it.
C27_EnvelopeFrame ==
    env.pc = "done" =>
        LET x == env.args.text
            recognised ==
                /\ CaseFolded(env.args.mode) \in {S_isolate, S_embed, S_override}
                /\ CaseFolded(env.args.dir) \in {S_ltr, S_rtl, S_auto}
        IN  /\ (env.ret = x) <=> ~recognised
            /\ recognised =>
                   /\ Len(env.ret) = Len(x) + 2
                   /\ SubSeq(env.ret, 2, Len(x) + 1) = x

\* an unrecognised mode: the unbalanced text comes back as passed
C27_Witness ==
    /\ env.pc = "done"
    /\ env.args = [text |-> << 8236, 8234 >>, dir |-> S_rtl, mode |-> << 120 >>]
    /\ env.ret = << 8236, 8234 >>

====
